---- MODULE Spec2Model ----
(***************************************************************************)
(* Smooth-scroll controller (DesktopScrollManager) and device classifier   *)
(* of kamranimtiaz/stefan.  The repository holds two variants of the       *)
(* controller:                                                             *)
(*   "width" : src/main.js 772-940   (viewport width + touch signals)      *)
(*   "ua"    : src/unnamed/part_000 13-255 (window.isMobile, user agent)   *)
(* Both are modelled; the variable `variant` says which class the page     *)
(* runs.  Time is counted in ticks of TickMs milliseconds.                 *)
(* The animation dispatcher (ScrollAnimationManager) and the footer        *)
(* countdown (initFooterAnimation) have specifications of their own,       *)
(* SpecDispatch and SpecFooter, over the variables disp and foot.          *)
(***************************************************************************)
EXTENDS Integers, FiniteSets, Sequences, TLC

VARIABLES
    variant,      \* which DesktopScrollManager class the page runs
    lenisLoaded,  \* typeof Lenis !== "undefined"
    env,          \* the ambient browser signals
    pc,           \* "load" before the constructor, "ready" after, "classified"
    mgr,          \* the fields of the DesktopScrollManager instance
    dom,          \* body classes and the root style variables
    eng,          \* sessions created / destroyed, registered per-frame pumps
    timers,       \* pending setTimeout timers
    timersUsed,   \* timer ids handed out so far
    burst,        \* history of the handleResize calls since the last quiet period
    last,         \* the step taken last and what it was observed to do
    cls,          \* result of the classifier (classifier specification)
    disp,         \* the ScrollAnimationManager instance and the elements it animates
    foot,         \* the footer countdown of initFooterAnimation and its nav links
    bld,          \* one call of an animation builder: its inputs and what it made
    nav,          \* the navbar of initNavbarAnimation
    page          \* the markup the page-ready handler finds and what its routines set up

\* the page routines beside the smooth-scroll controller
scene == <<disp, foot, bld, nav, page>>

vars == <<variant, lenisLoaded, env, pc, mgr, dom, eng, timers, timersUsed,
          burst, last, cls, disp, foot, bld, nav, page>>

(***************************************************************************)
(* Bounds of the model                                                     *)
(***************************************************************************)
MaxSessions == 2
MaxTimers == 3
Heights == {600}

(***************************************************************************)
(* Program constants                                                       *)
(***************************************************************************)
Breakpoint == 991
ResizeDebounceMs == 250
OrientationSettleMs == 100

\* one tick is the largest unit both delays are multiples of
RECURSIVE Gcd(_, _)
Gcd(a, b) == IF b = 0 THEN a ELSE Gcd(b, a % b)
TickMs == Gcd(ResizeDebounceMs, OrientationSettleMs)
ResizeDebounce == ResizeDebounceMs \div TickMs
OrientationSettle == OrientationSettleMs \div TickMs

Variants == {"width", "ua"}
BodyClasses == {"disable-cursor", "viewport-mobile", "fixed-viewport", "enable-lenis"}

(***************************************************************************)
(* Ambient browser signals.  A user-agent string is modelled by the set of *)
(* the tokens it contains that one of the two regular expressions names.   *)
(***************************************************************************)
MobileTokensUa == {"Android", "webOS", "iPhone", "iPad", "iPod", "BlackBerry",
                   "IEMobile", "Opera Mini"}
MobileTokensWidth == MobileTokensUa \cup {"Mobile", "CriOS"}

UserAgents == { {}, {"Android"}, {"Android", "Mobile"}, {"Mobile"} }
Widths == {Breakpoint, Breakpoint + 1}
UaDataValues == {"undefined", "true", "false"}

Envs == [innerWidth : Widths, innerHeight : Heights, hasTouch : BOOLEAN,
         coarsePointer : BOOLEAN, canHover : BOOLEAN,
         userAgent : UserAgents, uaDataMobile : UaDataValues]

\* The devices the lifecycle specification switches between (device emulation
\* or a changed peripheral): the signals of one device change together.
Signals(touch, coarse, hover, ua, uaData) ==
    [hasTouch |-> touch, coarsePointer |-> coarse, canHover |-> hover,
     userAgent |-> ua, uaDataMobile |-> uaData]

Devices ==
    { Signals(FALSE, FALSE, TRUE, {}, "undefined"),                      \* desktop, no userAgentData
      Signals(TRUE, FALSE, TRUE, {}, "false"),                           \* touch-screen laptop
      Signals(TRUE, TRUE, FALSE, {"Android", "Mobile"}, "true"),         \* phone
      Signals(TRUE, TRUE, FALSE, {"Android", "Mobile"}, "undefined") }   \* phone, no userAgentData

WithViewport(d, iw, ih) ==
    [innerWidth |-> iw, innerHeight |-> ih, hasTouch |-> d.hasTouch,
     coarsePointer |-> d.coarsePointer, canHover |-> d.canHover,
     userAgent |-> d.userAgent, uaDataMobile |-> d.uaDataMobile]

DeviceEnvs == {WithViewport(d, iw, ih) : d \in Devices, iw \in Widths, ih \in Heights}

(***************************************************************************)
(* Device classifier                                                       *)
(***************************************************************************)
\* window.isMobile: userAgentData.mobile when defined, else the regex test
isMobile(e) ==
    IF e.uaDataMobile # "undefined"
    THEN e.uaDataMobile = "true"
    ELSE e.userAgent \cap MobileTokensUa # {}

\* mutant: the signals are combined with && instead of ||
detectTouchDevice_And(e) ==
    e.hasTouch /\ (e.userAgent \cap MobileTokensWidth # {}) /\ e.coarsePointer /\ ~e.canHover

\* DesktopScrollManager.detectTouchDevice (width variant)
detectTouchDevice(e) ==
    LET hasTouch == e.hasTouch
        mobileUserAgent == e.userAgent \cap MobileTokensWidth # {}
        hasCoarsePointer == e.coarsePointer
        canHover == e.canHover
    IN  hasTouch \/ mobileUserAgent \/ hasCoarsePointer \/ ~canHover

\* DesktopScrollManager.isDesktopSize (width variant)
isDesktopSize(e) == e.innerWidth > Breakpoint

\* DesktopScrollManager.shouldEnableScroll: the returned value and the
\* manager fields it stores (width variant only)
shouldEnableScroll(v, m, e) ==
    IF v = "width"
    THEN LET m2 == [m EXCEPT !.isTouchDevice = detectTouchDevice(e),
                             !.isDesktop = isDesktopSize(e)]
         IN  [mgr |-> m2, ret |-> m2.isDesktop /\ ~m2.isTouchDevice]
    ELSE [mgr |-> m, ret |-> ~isMobile(e)]

(***************************************************************************)
(* The world a handler changes: manager fields, DOM, engine, timers, and   *)
(* what the running handler has done so far (out).                         *)
(***************************************************************************)
NoOut == [refreshCalls |-> 0, threw |-> FALSE, created |-> 0, destroyed |-> 0,
          classRuns |-> 0]

World == [mgr |-> mgr, dom |-> dom, eng |-> eng, timers |-> timers,
          timersUsed |-> timersUsed, out |-> NoOut]

\* document.documentElement.style value `${n / 100}px`
PxHundredth(n) == <<n \div 100, n % 100, "px">>

\* mutant: only --dvh is written
updateViewportHeight_HeightOnly(w, e) ==
    IF isMobile(e)
    THEN [w EXCEPT !.dom.dvh = PxHundredth(e.innerHeight)]
    ELSE w

\* DesktopScrollManager.updateViewportHeight (ua variant)
updateViewportHeight(w, e) ==
    IF isMobile(e)
    THEN [w EXCEPT !.dom.dvh = PxHundredth(e.innerHeight),
                   !.dom.dvw = PxHundredth(e.innerWidth)]
    ELSE w

\* mutant: the mobile branch adds fixed-viewport without replacing enable-lenis
configureMobileSettings_NoReplace(w, e) ==
    LET c == w.dom.classes
        w1 == [w EXCEPT !.out.classRuns = @ + 1]
    IN  IF isMobile(e)
        THEN updateViewportHeight(
               [w1 EXCEPT !.dom.classes =
                    c \cup {"disable-cursor", "viewport-mobile", "fixed-viewport"}], e)
        ELSE [w1 EXCEPT !.dom.classes =
                 (c \ {"disable-cursor", "viewport-mobile", "fixed-viewport"})
                 \cup {"enable-lenis"}]

\* DesktopScrollManager.configureMobileSettings (ua variant)
configureMobileSettings(w, e) ==
    LET c == w.dom.classes
        w1 == [w EXCEPT !.out.classRuns = @ + 1]
    IN  IF isMobile(e)
        THEN LET c1 == c \cup {"disable-cursor", "viewport-mobile"}
                 c2 == IF "enable-lenis" \in c1
                       THEN (c1 \ {"enable-lenis"}) \cup {"fixed-viewport"}
                       ELSE c1 \cup {"fixed-viewport"}
             IN  updateViewportHeight([w1 EXCEPT !.dom.classes = c2], e)
        ELSE [w1 EXCEPT !.dom.classes =
                 (c \ {"disable-cursor", "viewport-mobile", "fixed-viewport"})
                 \cup {"enable-lenis"}]

\* mutant: no typeof Lenis check, so new Lenis throws a ReferenceError
initLenis_NoLoadedCheck(v, w, e, loaded) ==
    IF ~loaded THEN [w EXCEPT !.out.threw = TRUE]
    ELSE IF v = "ua" /\ isMobile(e) THEN w
    ELSE LET id == w.eng.created + 1
         IN  [w EXCEPT !.mgr.lenis = id,
                       !.eng.created = id,
                       !.eng.pumps = @ \cup {id},
                       !.out.created = @ + 1]

\* DesktopScrollManager.initLenis: new Lenis(...) and the per-frame pump
\* (ua: a requestAnimationFrame chain; width: a gsap.ticker listener)
initLenis(v, w, e, loaded) ==
    IF ~loaded THEN w
    ELSE IF v = "ua" /\ isMobile(e) THEN w
    ELSE LET id == w.eng.created + 1
         IN  [w EXCEPT !.mgr.lenis = id,
                       !.eng.created = id,
                       !.eng.pumps = @ \cup {id},
                       !.out.created = @ + 1]

\* DesktopScrollManager.destroyLenis
destroyLenis(w) ==
    IF w.mgr.lenis # 0
    THEN [w EXCEPT !.mgr.lenis = 0,
                   !.eng.destroyed = @ + 1,
                   !.out.destroyed = @ + 1]
    ELSE w

\* ScrollTrigger.refresh()
ScrollTriggerRefresh(w) == [w EXCEPT !.out.refreshCalls = @ + 1]

\* mutant: the else-if branch that destroys the session is missing
Reevaluate_NoDestroy(v, w, e, loaded) ==
    LET s == shouldEnableScroll(v, w.mgr, e)
        w1 == [w EXCEPT !.mgr = s.mgr]
    IN  IF s.ret /\ w1.mgr.lenis = 0 THEN initLenis(v, w1, e, loaded) ELSE w1

\* mutant: a session is created without testing !this.lenis
Reevaluate_NoGuard(v, w, e, loaded) ==
    LET s == shouldEnableScroll(v, w.mgr, e)
        w1 == [w EXCEPT !.mgr = s.mgr]
    IN  IF s.ret THEN initLenis(v, w1, e, loaded)
        ELSE IF w1.mgr.lenis # 0 THEN destroyLenis(w1)
        ELSE w1

\* the if / else-if that handleResize's timer body and refresh() share
Reevaluate(v, w, e, loaded) ==
    LET s == shouldEnableScroll(v, w.mgr, e)
        w1 == [w EXCEPT !.mgr = s.mgr]
        shouldEnable == s.ret
    IN  IF shouldEnable /\ w1.mgr.lenis = 0 THEN initLenis(v, w1, e, loaded)
        ELSE IF ~shouldEnable /\ w1.mgr.lenis # 0 THEN destroyLenis(w1)
        ELSE w1

\* the callback handleResize passes to setTimeout
ResizeBodyOf(v, w, e, loaded) ==
    IF v = "ua"
    THEN ScrollTriggerRefresh(
           Reevaluate(v, configureMobileSettings(updateViewportHeight(w, e), e),
                      e, loaded))
    ELSE Reevaluate(v, w, e, loaded)

\* mutant: refresh() leaves the body classes as they are
refresh_NoClassUpdate(v, w, e, loaded) ==
    IF v = "ua"
    THEN ScrollTriggerRefresh(Reevaluate(v, w, e, loaded))
    ELSE Reevaluate(v, w, e, loaded)

\* DesktopScrollManager.refresh
refresh(v, w, e, loaded) ==
    IF v = "ua"
    THEN configureMobileSettings(ScrollTriggerRefresh(Reevaluate(v, w, e, loaded)), e)
    ELSE Reevaluate(v, w, e, loaded)

\* DesktopScrollManager.isActive
isActive(m) == m.lenis # 0

\* clearTimeout(id)
clearTimeout(ts, id) == {t \in ts : t.id # id}

\* mutant: the pending timer is not cleared
handleResize_NoClear(w) ==
    LET id == w.timersUsed + 1
    IN  [w EXCEPT !.timers = @ \cup
                       {[id |-> id, kind |-> "debounce", remaining |-> ResizeDebounce]},
                  !.timersUsed = id,
                  !.mgr.resizeTimeout = id]

\* mutant: setTimeout is called without the delay
handleResize_NoDelay(w) ==
    LET id == w.timersUsed + 1
    IN  [w EXCEPT !.timers = clearTimeout(@, w.mgr.resizeTimeout) \cup
                       {[id |-> id, kind |-> "debounce", remaining |-> 0]},
                  !.timersUsed = id,
                  !.mgr.resizeTimeout = id]

\* DesktopScrollManager.handleResize: clearTimeout, then setTimeout(..., 250)
handleResize(w) ==
    LET id == w.timersUsed + 1
    IN  [w EXCEPT !.timers = clearTimeout(@, w.mgr.resizeTimeout) \cup
                       {[id |-> id, kind |-> "debounce", remaining |-> ResizeDebounce]},
                  !.timersUsed = id,
                  !.mgr.resizeTimeout = id]

\* mutant: init() only registers the listeners
init_NoInitialCheck(v, w, e, loaded) ==
    LET w1 == IF v = "ua" THEN configureMobileSettings(w, e) ELSE w
        s == shouldEnableScroll(v, w1.mgr, e)
    IN  [w1 EXCEPT !.mgr = [s.mgr EXCEPT !.vhListener = (v = "ua" /\ isMobile(e))]]

\* DesktopScrollManager.init, called by the constructor
init(v, w, e, loaded) ==
    LET w1 == IF v = "ua" THEN configureMobileSettings(w, e) ELSE w
        s == shouldEnableScroll(v, w1.mgr, e)
        w2 == [w1 EXCEPT !.mgr = s.mgr]
        w3 == IF s.ret THEN initLenis(v, w2, e, loaded) ELSE w2
    IN  [w3 EXCEPT !.mgr.vhListener = (v = "ua" /\ isMobile(e))]

(***************************************************************************)
(* State machine                                                           *)
(***************************************************************************)
Commit(w) ==
    /\ mgr' = w.mgr
    /\ dom' = w.dom
    /\ eng' = w.eng
    /\ timers' = w.timers
    /\ timersUsed' = w.timersUsed

Done(op, w) ==
    last' = [op |-> op, out |-> w.out,
             since |-> IF op = "resizeBody" THEN burst.since ELSE 0,
             ranPumps |-> {}, rafCalls |-> 0]

\* handleResize was called now: the burst goes on if its timer was still pending
Called(by) ==
    [since |-> 0,
     calls |-> IF \E t \in timers : t.kind = "debounce" THEN burst.calls + 1 ELSE 1,
     runs |-> 0,
     by |-> by]

PendingSettles == Cardinality({t \in timers : t.kind = "settle"})

\* a routine the specification at hand does not run
Unused == [phase |-> "unused"]

\* constructor(): this.lenis = null; this.resizeTimeout = null; this.init()
NewManager == [lenis |-> 0, resizeTimeout |-> 0, isDesktop |-> FALSE,
               isTouchDevice |-> FALSE, vhListener |-> FALSE]

Init ==
    /\ variant \in Variants
    /\ lenisLoaded \in BOOLEAN
    /\ env \in DeviceEnvs
    /\ pc = "load"
    /\ mgr = NewManager
    \* the width variant neither reads nor writes the body classes
    /\ dom \in [classes : IF variant = "ua" THEN SUBSET BodyClasses ELSE {{}},
                dvh : {<<>>}, dvw : {<<>>}]
    /\ eng = [created |-> 0, destroyed |-> 0, pumps |-> {}]
    /\ timers = {}
    /\ timersUsed = 0
    /\ burst = [since |-> 0, calls |-> 0, runs |-> 0, by |-> "none"]
    /\ last = [op |-> "load", out |-> NoOut, since |-> 0,
               ranPumps |-> {}, rafCalls |-> 0]
    /\ cls = "none"
    /\ bld = Unused
    /\ nav = Unused
    /\ page = Unused
    /\ disp = Unused
    /\ foot = Unused

\* new DesktopScrollManager()
Construct ==
    /\ pc = "load"
    /\ LET w == init(variant, World, env, lenisLoaded)
       IN  Commit(w) /\ Done("init", w)
    /\ pc' = "ready"
    /\ UNCHANGED scene
    /\ UNCHANGED <<variant, lenisLoaded, env, burst, cls>>

\* one animation frame: every registered pump callback runs.  It reads
\* this.lenis when it runs; on null the call this.lenis.raf throws a TypeError
\* (ua: the chain is not re-requested; width: the ticker listener stays).
AnimationFrame(v, w) ==
    IF w.eng.pumps = {} THEN w
    ELSE IF w.mgr.lenis = 0
    THEN [w EXCEPT !.out.threw = TRUE,
                   !.eng.pumps = IF v = "ua" THEN {} ELSE @]
    ELSE w

\* window "resize" event with the new viewport size: the listeners of init()
Resize ==
    /\ pc = "ready"
    /\ timersUsed + PendingSettles < MaxTimers
    /\ \E iw \in Widths, ih \in Heights :
         /\ env' = [env EXCEPT !.innerWidth = iw, !.innerHeight = ih]
         /\ LET w1 == handleResize(World)
                w2 == IF w1.mgr.vhListener THEN updateViewportHeight(w1, env') ELSE w1
            IN  Commit(w2) /\ Done("resize", w2)
    /\ burst' = Called("resize")
    /\ UNCHANGED scene
    /\ UNCHANGED <<variant, lenisLoaded, pc, cls>>

\* window "orientationchange" event: setTimeout(() => this.handleResize(), 100)
OrientationChange ==
    /\ pc = "ready"
    /\ timersUsed + PendingSettles + 1 < MaxTimers
    /\ LET id == timersUsed + 1
           w == [World EXCEPT !.timers = @ \cup
                     {[id |-> id, kind |-> "settle", remaining |-> OrientationSettle]},
                              !.timersUsed = id]
       IN  Commit(w) /\ Done("orientationchange", w)
    /\ UNCHANGED scene
    /\ UNCHANGED <<variant, lenisLoaded, env, pc, burst, cls>>

\* the 100 ms timer of the orientationchange listener fires
SettleFire ==
    /\ \E t \in timers :
         /\ t.kind = "settle" /\ t.remaining = 0
         /\ LET w == handleResize([World EXCEPT !.timers = @ \ {t}])
            IN  Commit(w) /\ Done("settle", w)
    /\ burst' = Called("settle")
    /\ UNCHANGED scene
    /\ UNCHANGED <<variant, lenisLoaded, env, pc, cls>>

\* the 250 ms timer of handleResize fires
DebounceFire ==
    /\ \E t \in timers :
         /\ t.kind = "debounce" /\ t.remaining = 0
         /\ LET w == ResizeBodyOf(variant, [World EXCEPT !.timers = @ \ {t}],
                                  env, lenisLoaded)
            IN  /\ w.eng.created <= MaxSessions
                /\ Commit(w) /\ Done("resizeBody", w)
    /\ burst' = [burst EXCEPT !.runs = @ + 1]
    /\ UNCHANGED scene
    /\ UNCHANGED <<variant, lenisLoaded, env, pc, cls>>

\* window.scrollManager.refresh()
Refresh ==
    /\ pc = "ready"
    /\ LET w == refresh(variant, World, env, lenisLoaded)
       IN  /\ w.eng.created <= MaxSessions
           /\ Commit(w) /\ Done("refresh", w)
    /\ UNCHANGED scene
    /\ UNCHANGED <<variant, lenisLoaded, env, pc, burst, cls>>

\* the browser runs the animation-frame callbacks
Frame ==
    /\ pc = "ready"
    /\ eng.pumps # {}
    /\ LET w == AnimationFrame(variant, World)
       IN  /\ Commit(w)
           /\ last' = [op |-> "frame", out |-> w.out,
                       since |-> 0,
                       ranPumps |-> eng.pumps,
                       rafCalls |-> IF mgr.lenis # 0 THEN Cardinality(eng.pumps) ELSE 0]
    /\ UNCHANGED scene
    /\ UNCHANGED <<variant, lenisLoaded, env, pc, burst, cls>>

\* TickMs milliseconds pass; a due timer runs before time moves on
Tick ==
    /\ pc = "ready"
    /\ timers # {}
    /\ \A t \in timers : t.remaining > 0
    /\ timers' = {[t EXCEPT !.remaining = @ - 1] : t \in timers}
    /\ burst' = [burst EXCEPT !.since = IF @ <= ResizeDebounce THEN @ + 1 ELSE @]
    /\ last' = [op |-> "tick", out |-> NoOut, since |-> 0,
                ranPumps |-> {}, rafCalls |-> 0]
    /\ UNCHANGED scene
    /\ UNCHANGED <<variant, lenisLoaded, env, pc, mgr, dom, eng, timersUsed, cls>>

\* the ambient signals other than the viewport size change to those of another
\* device; no event is delivered
SignalChange ==
    /\ pc = "ready"
    /\ \E d \in Devices :
         /\ env' = WithViewport(d, env.innerWidth, env.innerHeight)
         /\ env' # env
    /\ last' = [op |-> "signal", out |-> NoOut, since |-> 0,
                ranPumps |-> {}, rafCalls |-> 0]
    /\ UNCHANGED scene
    /\ UNCHANGED <<variant, lenisLoaded, pc, mgr, dom, eng, timers, timersUsed,
                   burst, cls>>

Next ==
    \/ Construct
    \/ Resize
    \/ OrientationChange
    \/ SettleFire
    \/ DebounceFire
    \/ Refresh
    \/ Frame
    \/ Tick
    \/ SignalChange

Spec == Init /\ [][Next]_vars

(***************************************************************************)
(* Classifier specification: the classifier of the running variant applied *)
(* once to every combination of the ambient signals.                       *)
(***************************************************************************)
InitClassify ==
    /\ variant \in Variants
    /\ lenisLoaded = TRUE
    /\ env \in Envs
    /\ pc = "load"
    /\ mgr = NewManager
    /\ dom = [classes |-> {}, dvh |-> <<>>, dvw |-> <<>>]
    /\ eng = [created |-> 0, destroyed |-> 0, pumps |-> {}]
    /\ timers = {}
    /\ timersUsed = 0
    /\ burst = [since |-> 0, calls |-> 0, runs |-> 0, by |-> "none"]
    /\ last = [op |-> "load", out |-> NoOut, since |-> 0,
               ranPumps |-> {}, rafCalls |-> 0]
    /\ cls = "none"
    /\ bld = Unused
    /\ nav = Unused
    /\ page = Unused
    /\ disp = Unused
    /\ foot = Unused

\* shouldEnableScroll() is called; desktop is the classification it enables on
Classify ==
    /\ pc = "load"
    /\ LET s == shouldEnableScroll(variant, mgr, env)
       IN  /\ mgr' = s.mgr
           /\ cls' = IF s.ret THEN "desktop" ELSE "mobile"
    /\ pc' = "classified"
    /\ UNCHANGED scene
    /\ UNCHANGED <<variant, lenisLoaded, env, dom, eng, timers, timersUsed, burst, last>>

NextClassify == Classify

SpecClassify == InitClassify /\ [][NextClassify]_vars

(***************************************************************************)
(* Animation dispatcher (ScrollAnimationManager).  The repository holds    *)
(* three versions of the class:                                            *)
(*   "part_000"   : src/unnamed/part_000 261-755 (async, results, skip)    *)
(*   "main_async" : src/main.js 261-654          (async, results)          *)
(*   "main_sync"  : src/main.js 948-1230         (forEach, no results)     *)
(* An element is the directive it carries: its data-scroll-animation       *)
(* value, whether its builder throws on it (a plugin that is not loaded,   *)
(* an invalid item selector), and how many descendants match its item      *)
(* selector.                                                               *)
(***************************************************************************)
MaxElements == 2
MaxDispatches == 2

RefreshDelayMs == 100
RefreshDelay == RefreshDelayMs \div TickMs

DispatcherClasses == {"part_000", "main_async", "main_sync"}

\* dataset.scrollAnimation || null
NullType == "(null)"

Element(type, throws, items) == [type |-> type, throws |-> throws, items |-> items]

ElementKinds ==
    { Element("", FALSE, 0),
      Element("fade-in", FALSE, 0),
      Element("fade-in", TRUE, 0),
      Element("horizontal-scroll", FALSE, 0),
      Element("horizontal-scroll", FALSE, 2),
      Element("bogus", FALSE, 0),
      Element("toString", FALSE, 0),
      Element("custom", FALSE, 0) }

\* names a caller passes to addAnimationType
CustomNames == {"custom"}

\* document.querySelectorAll("[data-scroll-animation]"), in document order
ElementLists == UNION {[1..n -> ElementKinds] : n \in 0..MaxElements}

\* getAnimationConfigs(): the own keys of the object literal it returns
getAnimationConfigs(c) ==
    LET common == {"text-reveal", "fade-in", "slide-up", "slide-left", "slide-right",
                   "scale-in", "rotate-in", "stagger-children"}
    IN  IF c = "part_000"
        THEN common \cup {"text-reveal-story", "horizontal-scroll", "image-parallax"}
        ELSE IF c = "main_async"
        THEN common \cup {"horizontal-scroll"}
        ELSE common

\* properties every object literal inherits from Object.prototype; called
\* without a receiver, toString and constructor return and the others throw
InheritedKeys == {"toString", "constructor", "valueOf", "hasOwnProperty"}
InheritedReturns == {"toString", "constructor"}

\* animationConfigs[config.type]
Lookup(c, type) ==
    IF type \in getAnimationConfigs(c) THEN "own"
    ELSE IF type \in InheritedKeys THEN "inherited"
    ELSE "undefined"

\* mutant: every version defaults an empty type to 'fade-in'
parseAnimationData_DefaultFadeIn(c, el) ==
    [type |-> IF el.type # "" THEN el.type ELSE "fade-in"]

\* parseAnimationData: the type field of the config
parseAnimationData(c, el) ==
    [type |-> IF el.type # "" THEN el.type
              ELSE IF c = "part_000" THEN NullType ELSE "fade-in"]

\* what one call of a builder did
Built(attached, refreshes) ==
    [threw |-> FALSE, attached |-> attached, refreshes |-> refreshes]
Threw == [threw |-> TRUE, attached |-> 0, refreshes |-> 0]

\* setupFadeIn: gsap.set + gsap.to with a scrollTrigger
setupFadeIn(el) == Built(1, 0)

\* mutant: the builder attaches whatever the device and the items
setupHorizontalScroll_NoGate(el, e) == Built(1, 1)

\* setupHorizontalScroll: desktop only, needs a matching item; gsap.to with a
\* scrollTrigger, then ScrollTrigger.refresh()
setupHorizontalScroll(el, e) ==
    IF isMobile(e) THEN Built(0, 0)
    ELSE IF el.items = 0 THEN Built(0, 0)
    ELSE Built(1, 1)

\* animationSetup(element, config)
animationSetup(c, type, el, e) ==
    IF Lookup(c, type) = "inherited"
    THEN IF type \in InheritedReturns THEN Built(0, 0) ELSE Threw
    ELSE IF el.throws THEN Threw
    ELSE IF type = "horizontal-scroll" THEN setupHorizontalScroll(el, e)
    ELSE setupFadeIn(el)

Result(success, type, index, error, skipped) ==
    [success |-> success, type |-> type, index |-> index, error |-> error,
     skipped |-> skipped]

\* mutant: the key counts from one
MapSet_OneBased(m, index, el, config) ==
    {x \in m : x.key # <<"animation-", index + 1>>}
      \cup {[key |-> <<"animation-", index + 1>>, element |-> el, config |-> config]}

\* this.animations.set(`animation-${index}`, {element, config})
MapSet(m, index, el, config) ==
    {x \in m : x.key # <<"animation-", index>>}
      \cup {[key |-> <<"animation-", index>>, element |-> el, config |-> config]}

\* constructor before this.initAnimations(): this.animations = new Map()
NewDispatcher(c, els) ==
    [cls |-> c, elements |-> els, phase |-> "new", cursor |-> 0,
     results |-> <<>>, returned |-> FALSE, animations |-> {},
     attached |-> [i \in DOMAIN els |-> 0],
     builderCalls |-> [i \in DOMAIN els |-> 0],
     refreshLog |-> <<>>, dtimers |-> <<>>, dispatches |-> 0, added |-> {}]

\* initAnimations up to the first element
initAnimations(d) ==
    [d EXCEPT !.phase = "processing", !.cursor = 1, !.results = <<>>,
              !.returned = FALSE, !.dispatches = @ + 1]

\* one run of the callback of map / forEach: element i (index i - 1)
ProcessElement(d, i, e) ==
    LET el == d.elements[i]
        index == i - 1
        c == d.cls
        config == parseAnimationData(c, el)
        keep == c # "main_sync"
        record(r) == IF keep THEN Append(d.results, r) ELSE d.results
        next == [d EXCEPT !.cursor = i + 1]
    IN  IF c = "part_000" /\ config.type = NullType
        THEN [next EXCEPT !.results =
                  record(Result(TRUE, "skipped", index, "none", TRUE))]
        ELSE IF Lookup(c, config.type) = "undefined"
        THEN [next EXCEPT !.results =
                  record(Result(FALSE, config.type, index, "Unknown type", FALSE))]
        ELSE LET b == animationSetup(c, config.type, el, e)
                 called == [next EXCEPT !.builderCalls[i] =
                               IF Lookup(c, config.type) = "own" THEN @ + 1 ELSE @]
             IN  IF b.threw
                 THEN [called EXCEPT !.results =
                          record(Result(FALSE, config.type, index, "exception", FALSE))]
                 ELSE [called EXCEPT
                          !.attached[i] = @ + b.attached,
                          !.refreshLog =
                              IF b.refreshes > 0
                              THEN Append(@, [by |-> "builder", batch |-> d.dispatches,
                                              processed |-> index])
                              ELSE @,
                          !.animations = MapSet(@, index, i, config),
                          !.results =
                              record(Result(TRUE, config.type, index, "none", FALSE))]

\* after the last element: the async versions resume after Promise.all, arm
\* the refresh timer and return the results; the forEach version returns
BatchDone(d) ==
    IF d.cls = "main_sync"
    THEN [d EXCEPT !.phase = "idle"]
    ELSE [d EXCEPT !.phase = "idle", !.returned = TRUE,
                   !.dtimers = Append(@, [batch |-> d.dispatches,
                                          remaining |-> RefreshDelay])]

\* the callback of the refresh timer: ScrollTrigger.refresh()
RefreshTimer(d) ==
    [d EXCEPT !.dtimers = Tail(@),
              !.refreshLog = Append(@, [by |-> "timer", batch |-> d.dtimers[1].batch,
                                        processed |-> Len(d.elements)])]

\* addAnimationType(name, fn): the function is stored in the object a fresh
\* getAnimationConfigs() call returned, which no one keeps
addAnimationType(d, name) ==
    LET configs == getAnimationConfigs(d.cls) \cup {name}
    IN  [d EXCEPT !.added = @ \cup {[name |-> name, after |-> d.dispatches]}]

controller == <<variant, lenisLoaded, env, pc, mgr, dom, eng, timers, timersUsed,
                burst, last, cls>>

InitDispatch ==
    /\ variant = "ua"
    /\ lenisLoaded = TRUE
    /\ env \in {WithViewport(d, Breakpoint + 1, ih) : d \in Devices, ih \in Heights}
    /\ pc = "load"
    /\ mgr = NewManager
    /\ dom = [classes |-> {}, dvh |-> <<>>, dvw |-> <<>>]
    /\ eng = [created |-> 0, destroyed |-> 0, pumps |-> {}]
    /\ timers = {}
    /\ timersUsed = 0
    /\ burst = [since |-> 0, calls |-> 0, runs |-> 0, by |-> "none"]
    /\ last = [op |-> "load", out |-> NoOut, since |-> 0,
               ranPumps |-> {}, rafCalls |-> 0]
    /\ cls = "none"
    /\ bld = Unused
    /\ nav = Unused
    /\ page = Unused
    /\ \E c \in DispatcherClasses, els \in ElementLists : disp = NewDispatcher(c, els)
    /\ foot = Unused

\* new ScrollAnimationManager()
DispatcherConstruct ==
    /\ disp.phase = "new"
    /\ disp' = initAnimations(disp)
    /\ UNCHANGED <<controller, foot, bld, nav, page>>

\* the dispatcher processes the next element
DispatcherProcess ==
    /\ disp.phase = "processing"
    /\ disp.cursor <= Len(disp.elements)
    /\ disp' = ProcessElement(disp, disp.cursor, env)
    /\ UNCHANGED <<controller, foot, bld, nav, page>>

\* the dispatcher is through the list
DispatcherBatchDone ==
    /\ disp.phase = "processing"
    /\ disp.cursor > Len(disp.elements)
    /\ disp' = BatchDone(disp)
    /\ UNCHANGED <<controller, foot, bld, nav, page>>

\* TickMs milliseconds pass; a due timer runs before time moves on
DispatcherTick ==
    /\ disp.phase = "idle"
    /\ disp.dtimers # <<>>
    /\ \A k \in DOMAIN disp.dtimers : disp.dtimers[k].remaining > 0
    /\ disp' = [disp EXCEPT !.dtimers =
                   [k \in DOMAIN @ |-> [@[k] EXCEPT !.remaining = @ - 1]]]
    /\ UNCHANGED <<controller, foot, bld, nav, page>>

\* the refresh timer fires
DispatcherRefreshFire ==
    /\ disp.phase = "idle"
    /\ disp.dtimers # <<>>
    /\ disp.dtimers[1].remaining = 0
    /\ disp' = RefreshTimer(disp)
    /\ UNCHANGED <<controller, foot, bld, nav, page>>

\* scrollAnimationManager.initAnimations() is called again
DispatcherInitAnimations ==
    /\ disp.phase = "idle"
    /\ disp.dispatches < MaxDispatches
    /\ disp' = initAnimations(disp)
    /\ UNCHANGED <<controller, foot, bld, nav, page>>

\* scrollAnimationManager.addAnimationType(name, fn)
DispatcherAddAnimationType ==
    /\ disp.phase = "idle"
    /\ \E name \in CustomNames \ {a.name : a \in disp.added} :
         disp' = addAnimationType(disp, name)
    /\ UNCHANGED <<controller, foot, bld, nav, page>>

NextDispatch ==
    \/ DispatcherConstruct
    \/ DispatcherProcess
    \/ DispatcherBatchDone
    \/ DispatcherTick
    \/ DispatcherRefreshFire
    \/ DispatcherInitAnimations
    \/ DispatcherAddAnimationType

SpecDispatch == InitDispatch /\ [][NextDispatch]_vars

(***************************************************************************)
(* Footer countdown (initFooterAnimation).  A paused 10 s timeline is      *)
(* restarted when the footer is entered and reset when it is left; on      *)
(* completion the next navigation link is clicked.  Time is counted in     *)
(* seconds here.  The page is modelled as staying after a click (a click   *)
(* a listener cancels, or the time until the navigation commits).          *)
(***************************************************************************)
MaxLinks == 2
MaxStarts == 2

HeadingDuration == 10

\* the href attribute of a nav link: absent, "#", or a path
NoAttr == "(absent)"
HrefAttrs == {NoAttr, "#", "/next"}

\* HTMLAnchorElement.href: "" without the attribute, else the attribute
\* resolved against the URL of the document
HrefProperty(attr) ==
    CASE attr = NoAttr -> ""
      [] attr = "#" -> "https://host/page#"
      [] attr = "/next" -> "https://host/next"

NavLinkLists == UNION {[1..n -> HrefAttrs] : n \in 0..MaxLinks}

Markups == [footerSection : BOOLEAN, navKnob : BOOLEAN, footerHeading : BOOLEAN]

\* the page before initFooterAnimation() runs: links are the .nav_link
\* elements of the .nav_links_wrap, current the position of the one with
\* w--current (0: none), wrap whether it has a .nav_links_wrap ancestor
NewFooter(markup, links, current, wrap) ==
    [phase |-> "new", markup |-> markup, links |-> links, current |-> current,
     wrap |-> wrap, pos |-> "before", playing |-> FALSE, time |-> 0,
     complete |-> FALSE, nav |-> 0, clicks |-> <<>>, starts |-> 0,
     op |-> "load",
     seen |-> [time |-> 0, playing |-> FALSE, complete |-> FALSE, clicks |-> 0]]

\* navigateToNextPage
navigateToNextPage(f) ==
    IF f.current = 0 THEN f
    ELSE IF ~f.wrap THEN f
    ELSE LET currentIndex == f.current - 1
             nextIndex == (currentIndex + 1) % Len(f.links)
             href == HrefProperty(f.links[nextIndex + 1])
         IN  IF href # "" /\ href # "#"
             THEN [f EXCEPT !.clicks = Append(@, nextIndex)]
             ELSE f

\* onComplete of the timeline
onComplete(f) ==
    navigateToNextPage([f EXCEPT !.complete = TRUE, !.playing = FALSE, !.nav = @ + 1])

\* mutant: restart() without testing isAnimationComplete
startHeadingAnimation_NoGuard(f) ==
    [f EXCEPT !.playing = TRUE, !.time = 0, !.nav = 0, !.starts = @ + 1]

\* startHeadingAnimation: restart() unless the countdown has completed
startHeadingAnimation(f) ==
    IF ~f.complete
    THEN [f EXCEPT !.playing = TRUE, !.time = 0, !.nav = 0, !.starts = @ + 1]
    ELSE f

\* mutant: the timeline is rewound but not paused
resetHeadingAnimation_NoPause(f) ==
    [f EXCEPT !.time = 0, !.complete = FALSE, !.nav = 0]

\* resetHeadingAnimation: pause(), progress(0), isAnimationComplete = false
resetHeadingAnimation(f) ==
    [f EXCEPT !.playing = FALSE, !.time = 0, !.complete = FALSE, !.nav = 0]

\* initFooterAnimation: the guards on the markup, then setupHeadingAnimation
\* and ScrollTrigger.create
initFooterAnimation(f) ==
    IF ~f.markup.footerSection \/ ~f.markup.navKnob \/ ~f.markup.footerHeading
    THEN [f EXCEPT !.phase = "aborted"]
    ELSE [f EXCEPT !.phase = "running", !.playing = FALSE, !.time = 0,
                   !.complete = FALSE]

\* one second of the timeline while it plays
advance(f) ==
    IF f.time + 1 = HeadingDuration
    THEN onComplete([f EXCEPT !.time = HeadingDuration])
    ELSE [f EXCEPT !.time = @ + 1]

InitFooter ==
    /\ variant = "ua"
    /\ lenisLoaded = TRUE
    /\ env \in {WithViewport(d, Breakpoint + 1, ih) : d \in Devices, ih \in Heights}
    /\ pc = "load"
    /\ mgr = NewManager
    /\ dom = [classes |-> {}, dvh |-> <<>>, dvw |-> <<>>]
    /\ eng = [created |-> 0, destroyed |-> 0, pumps |-> {}]
    /\ timers = {}
    /\ timersUsed = 0
    /\ burst = [since |-> 0, calls |-> 0, runs |-> 0, by |-> "none"]
    /\ last = [op |-> "load", out |-> NoOut, since |-> 0,
               ranPumps |-> {}, rafCalls |-> 0]
    /\ cls = "none"
    /\ bld = Unused
    /\ nav = Unused
    /\ page = Unused
    /\ disp = Unused
    /\ \E markup \in Markups, links \in NavLinkLists, wrap \in BOOLEAN :
         \E current \in 0..Len(links) :
            foot = NewFooter(markup, links, current, wrap)

\* the step a footer action records: what it ran and what it found
FooterStep(op, f) ==
    foot' = [f EXCEPT !.op = op,
                      !.seen = [time |-> foot.time, playing |-> foot.playing,
                                complete |-> foot.complete,
                                clicks |-> Len(foot.clicks)]]

\* initFooterAnimation()
FooterInit ==
    /\ foot.phase = "new"
    /\ FooterStep("init", initFooterAnimation(foot))
    /\ UNCHANGED <<controller, disp, bld, nav, page>>

\* ScrollTrigger onEnter: the footer's start line is passed scrolling down
FooterEnter ==
    /\ foot.phase = "running"
    /\ foot.pos = "before"
    /\ foot.starts < MaxStarts
    /\ FooterStep("onEnter", [startHeadingAnimation(foot) EXCEPT !.pos = "inside"])
    /\ UNCHANGED <<controller, disp, bld, nav, page>>

\* ScrollTrigger onLeave: the footer's end line is passed scrolling down
FooterLeave ==
    /\ foot.phase = "running"
    /\ foot.pos = "inside"
    /\ FooterStep("onLeave", [resetHeadingAnimation(foot) EXCEPT !.pos = "after"])
    /\ UNCHANGED <<controller, disp, bld, nav, page>>

\* mutant: onEnterBack starts the countdown as onEnter does
FooterEnterBack_Starts ==
    /\ foot.phase = "running"
    /\ foot.pos = "after"
    /\ FooterStep("onEnterBack", [startHeadingAnimation(foot) EXCEPT !.pos = "inside"])
    /\ UNCHANGED <<controller, disp, bld, nav, page>>

\* ScrollTrigger onEnterBack: the end line is passed scrolling up
FooterEnterBack ==
    /\ foot.phase = "running"
    /\ foot.pos = "after"
    /\ FooterStep("onEnterBack", [resetHeadingAnimation(foot) EXCEPT !.pos = "inside"])
    /\ UNCHANGED <<controller, disp, bld, nav, page>>

\* ScrollTrigger onLeaveBack: the start line is passed scrolling up
FooterLeaveBack ==
    /\ foot.phase = "running"
    /\ foot.pos = "inside"
    /\ FooterStep("onLeaveBack", [resetHeadingAnimation(foot) EXCEPT !.pos = "before"])
    /\ UNCHANGED <<controller, disp, bld, nav, page>>

\* startAnimation() of the returned controller
FooterStartAnimation ==
    /\ foot.phase = "running"
    /\ foot.starts < MaxStarts
    /\ FooterStep("startAnimation", startHeadingAnimation(foot))
    /\ UNCHANGED <<controller, disp, bld, nav, page>>

\* resetAnimation() of the returned controller
FooterResetAnimation ==
    /\ foot.phase = "running"
    /\ FooterStep("resetAnimation", resetHeadingAnimation(foot))
    /\ UNCHANGED <<controller, disp, bld, nav, page>>

\* a second passes while the timeline plays
FooterTick ==
    /\ foot.phase = "running"
    /\ foot.playing
    /\ FooterStep("tick", advance(foot))
    /\ UNCHANGED <<controller, disp, bld, nav, page>>

NextFooter ==
    \/ FooterInit
    \/ FooterEnter
    \/ FooterLeave
    \/ FooterEnterBack
    \/ FooterLeaveBack
    \/ FooterStartAnimation
    \/ FooterResetAnimation
    \/ FooterTick

SpecFooter == InitFooter /\ [][NextFooter]_vars

(***************************************************************************)
(* Animation builders applied to one element: setupHorizontalScroll,       *)
(* setupTextReveal and setupTextRevealStory with the tweens and timelines  *)
(* they create.  DOM nodes are named "element" (the element carrying the   *)
(* directive), "list" (another parent of the first matching item) and      *)
(* "section" (an ancestor with class story_section).  Seconds are counted  *)
(* in hundredths.                                                          *)
(***************************************************************************)
MaxItems == 5
MaxWords == 3

\* parseAnimationData: heightMultiplier || 50; stagger || 0.1, in hundredths of
\* a second
DefaultHeightMultiplier == 50
DefaultStagger == 10

Absent == "(absent)"
NaN == [nan |-> TRUE, val |-> 0]
Num(v) == [nan |-> FALSE, val |-> v]

\* parseFloat of a data attribute (dataset value undefined when absent)
HeightMultiplierAttrs == {Absent, "abc", "0", "30", "50"}
StaggerAttrs == {Absent, "0", "0.2", "-0.1"}

ParseFloat(attr) ==
    CASE attr = Absent -> NaN
      [] attr = "abc" -> NaN
      [] attr = "0" -> Num(0)
      [] attr = "30" -> Num(30)
      [] attr = "50" -> Num(50)
      [] attr = "0.2" -> Num(20)
      [] attr = "-0.1" -> Num(-10)

\* x || d for a number x: NaN and 0 are falsy
OrDefault(x, d) == IF x.nan \/ x.val = 0 THEN d ELSE x.val

\* parseAnimationData: the fields the builders below read
parseBuilderConfig(data) ==
    [stagger |-> OrDefault(ParseFloat(data.stagger), DefaultStagger),
     heightMultiplier |-> OrDefault(ParseFloat(data.heightMultiplier),
                                    DefaultHeightMultiplier),
     splitType |-> IF data.split = Absent THEN "words" ELSE data.split,
     ease |-> IF data.ease = Absent THEN "power2.out" ELSE data.ease]

Datasets == [stagger : StaggerAttrs, heightMultiplier : {Absent}, split : {Absent, "chars", "lines"},
             ease : {Absent, "none"}]
ScrollDatasets == [stagger : {Absent}, heightMultiplier : HeightMultiplierAttrs,
                   split : {Absent}, ease : {Absent}]

\* layout widths in px
LayoutWidths == {800, 1200}

\* the element of a horizontal scroller: items descendants match the item
\* selector, inList of them lie under the parent of the first one, which is
\* the node firstParent
ScrollBoxes ==
    {[items |-> k, inList |-> j, firstParent |-> p, offsetWidth |-> ow,
      scrollWidth |-> sw, height |-> "auto"] :
        k \in 0..MaxItems, j \in 0..MaxItems, p \in {"element", "list"},
        ow \in LayoutWidths, sw \in LayoutWidths}

ValidScrollBox(b) ==
    IF b.items = 0 THEN b.inList = 0 /\ b.firstParent = "element"
    ELSE b.inList \in 1..b.items

\* what a builder leaves: the element's style.height, the tweens and
\* timelines created, SplitText constructions, ScrollTrigger.refresh calls
Made(height, tweens, timelines, splits, refreshes) ==
    [height |-> height, tweens |-> tweens, timelines |-> timelines,
     splits |-> splits, refreshes |-> refreshes]

\* mutant: the classifier gate is missing
HorizontalScrollBuild_NoGate(b, config, e) ==
    IF b.inList = 0 THEN Made(<<0, "svh">>, <<>>, <<>>, 0, 1)
    ELSE LET calculatedHeight == b.inList * config.heightMultiplier
             totalScrollDistance == b.scrollWidth - b.offsetWidth
         IN  Made(<<calculatedHeight, "svh">>,
                  <<[target |-> b.firstParent, x |-> -totalScrollDistance,
                     trigger |-> "element"]>>,
                  <<>>, 0, 1)

\* mutant: the height is the multiplier alone
HorizontalScrollBuild_NoCount(b, config, e) ==
    IF isMobile(e) THEN Made(b.height, <<>>, <<>>, 0, 0)
    ELSE IF b.items = 0 THEN Made(b.height, <<>>, <<>>, 0, 0)
    ELSE LET calculatedHeight == config.heightMultiplier
             totalScrollDistance == b.scrollWidth - b.offsetWidth
         IN  Made(<<calculatedHeight, "svh">>,
                  <<[target |-> b.firstParent, x |-> -totalScrollDistance,
                     trigger |-> "element"]>>,
                  <<>>, 0, 1)

\* setupHorizontalScroll in full
HorizontalScrollBuild(b, config, e) ==
    IF isMobile(e) THEN Made(b.height, <<>>, <<>>, 0, 0)
    ELSE IF b.items = 0 THEN Made(b.height, <<>>, <<>>, 0, 0)
    ELSE IF b.inList = 0 THEN Made(b.height, <<>>, <<>>, 0, 0)
    ELSE LET calculatedHeight == b.inList * config.heightMultiplier
             totalScrollDistance == b.scrollWidth - b.offsetWidth
         IN  Made(<<calculatedHeight, "svh">>,
                  <<[target |-> b.firstParent, x |-> -totalScrollDistance,
                     trigger |-> "element"]>>,
                  <<>>, 0, 1)

\* a text: the number of characters of each of its words, and the number of
\* lines it is laid out on
Texts ==
    {[words |-> w, lines |-> l] :
        w \in UNION {[1..n -> 1..2] : n \in 0..MaxWords}, l \in 0..MaxWords}

ValidText(t) ==
    IF Len(t.words) = 0 THEN t.lines = 0 ELSE t.lines \in 1..Len(t.words)

RECURSIVE SumTo(_, _)
SumTo(w, n) == IF n = 0 THEN 0 ELSE w[n] + SumTo(w, n - 1)

\* new SplitText(element, {type}): split.words, split.chars or split.lines
SplitUnits(t, type) ==
    LET count == IF type = "words" THEN Len(t.words)
                 ELSE IF type = "chars" THEN SumTo(t.words, Len(t.words))
                 ELSE t.lines
    IN  [i \in 1..count |-> <<type, i>>]

\* mutant: the offsets count from one
RevealTimeline_FromOne(trigger, targets, config, ease) ==
    [trigger |-> trigger,
     subs |-> [i \in 1..Len(targets) |->
                  [target |-> targets[i], ease |-> ease,
                   at |-> i * config.stagger]]]

\* gsap.timeline({scrollTrigger}) and targets.forEach(timeline.to(target,
\* {...}, index * config.stagger))
RevealTimeline(trigger, targets, config, ease) ==
    [trigger |-> trigger,
     subs |-> [i \in 1..Len(targets) |->
                  [target |-> targets[i], ease |-> ease,
                   at |-> (i - 1) * config.stagger]]]

\* setupTextReveal
setupTextReveal(t, config) ==
    LET targets == SplitUnits(t, config.splitType)
    IN  Made("auto", <<>>, <<RevealTimeline("element", targets, config, config.ease)>>,
             1, 0)

\* element.closest(".story_section"): the element itself if it matches, else
\* its nearest matching ancestor, else null
Closest(place) ==
    IF place.selfIsSection THEN "element"
    ELSE IF place.inSection THEN "section"
    ELSE "null"

Places == [selfIsSection : BOOLEAN, inSection : BOOLEAN]

\* setupTextRevealStory
setupTextRevealStory(t, place, config) ==
    LET storyScroller == Closest(place)
    IN  IF storyScroller = "null" THEN setupTextReveal(t, config)
        ELSE LET targets == SplitUnits(t, config.splitType)
             IN  Made("auto", <<>>,
                      <<RevealTimeline(storyScroller, targets, config, "power4.inOut")>>,
                      1, 0)

InitBuilders ==
    /\ variant = "ua"
    /\ lenisLoaded = TRUE
    /\ env \in {WithViewport(d, Breakpoint + 1, ih) : d \in Devices, ih \in Heights}
    /\ pc = "load"
    /\ mgr = NewManager
    /\ dom = [classes |-> {}, dvh |-> <<>>, dvw |-> <<>>]
    /\ eng = [created |-> 0, destroyed |-> 0, pumps |-> {}]
    /\ timers = {}
    /\ timersUsed = 0
    /\ burst = [since |-> 0, calls |-> 0, runs |-> 0, by |-> "none"]
    /\ last = [op |-> "load", out |-> NoOut, since |-> 0,
               ranPumps |-> {}, rafCalls |-> 0]
    /\ cls = "none"
    /\ disp = Unused
    /\ foot = Unused
    /\ bld = [phase |-> "new"]
    /\ nav = Unused
    /\ page = Unused

\* setupHorizontalScroll(element, config) on some scroller
BuildHorizontalScroll ==
    /\ bld.phase = "new"
    /\ \E b \in ScrollBoxes, data \in ScrollDatasets :
         /\ ValidScrollBox(b)
         /\ LET config == parseBuilderConfig(data)
            IN  bld' = [phase |-> "built", builder |-> "horizontal-scroll",
                        box |-> b, data |-> data, config |-> config,
                        made |-> HorizontalScrollBuild(b, config, env)]
    /\ UNCHANGED <<controller, disp, foot, nav, page>>

\* setupTextReveal(element, config) on some text
BuildTextReveal ==
    /\ bld.phase = "new"
    /\ \E t \in Texts, data \in Datasets :
         /\ ValidText(t)
         /\ LET config == parseBuilderConfig(data)
            IN  bld' = [phase |-> "built", builder |-> "text-reveal",
                        text |-> t, data |-> data, config |-> config,
                        made |-> setupTextReveal(t, config)]
    /\ UNCHANGED <<controller, disp, foot, nav, page>>

\* setupTextRevealStory(element, config) on some text somewhere in the page
BuildTextRevealStory ==
    /\ bld.phase = "new"
    /\ \E t \in Texts, data \in Datasets, place \in Places :
         /\ ValidText(t)
         /\ LET config == parseBuilderConfig(data)
            IN  bld' = [phase |-> "built", builder |-> "text-reveal-story",
                        text |-> t, data |-> data, config |-> config, place |-> place,
                        made |-> setupTextRevealStory(t, place, config),
                        plain |-> setupTextReveal(t, config)]
    /\ UNCHANGED <<controller, disp, foot, nav, page>>

NextBuilders ==
    \/ BuildHorizontalScroll
    \/ BuildTextReveal
    \/ BuildTextRevealStory

SpecBuilders == InitBuilders /\ [][NextBuilders]_vars

(***************************************************************************)
(* The page-ready handler and the scene routines it starts                 *)
(***************************************************************************)
MaxToggles == 2

\* the elements the scene routines query; a video of the hero section and a
\* heading of the footer section exist only inside their sections
PageMarkups ==
    {m \in [hero : BOOLEAN, darkOverlay : BOOLEAN, heroVideo : BOOLEAN,
            navKnob : BOOLEAN, navMain : BOOLEAN, navWrap : BOOLEAN,
            footerSection : BOOLEAN, footerHeading : BOOLEAN,
            toggle : BOOLEAN, wrapper : BOOLEAN] :
        /\ m.heroVideo => m.hero
        /\ m.darkOverlay => m.hero
        /\ m.footerHeading => m.footerSection}

\* getComputedStyle(navMain).marginTop
NavMargins == {"-64px", "0px"}

\* the number of .story_scroller sections
StorySections == {3}

\* the devices a page is opened on: a desktop and a phone
PageDevices == {d \in Devices : d.uaDataMobile # "false" /\ (d.hasTouch => d.uaDataMobile = "true")}

\* animateStoryScaling: one trigger per section after the first
animateStoryScaling(sections) == IF sections > 1 THEN sections - 1 ELSE 0

\* animateHero: no timeline without the hero section; a tween per part found
animateHero(m) ==
    IF ~m.hero THEN [timeline |-> FALSE, tweens |-> 0]
    ELSE [timeline |-> TRUE,
          tweens |-> (IF m.darkOverlay THEN 1 ELSE 0) + (IF m.heroVideo THEN 1 ELSE 0)]

NavSeen(n) ==
    [isOpen |-> n.isOpen, knobOpened |-> n.knobOpened, wrapOpened |-> n.wrapOpened,
     lastTween |-> n.lastTween]

\* the navbar before initNavbarAnimation() runs
NewNavbar(margin) ==
    [phase |-> "new", marginTop |-> margin, defaultMarginTop |-> "unset",
     isOpen |-> FALSE, knobOpened |-> FALSE, wrapOpened |-> FALSE,
     lastTween |-> "none", started |-> FALSE, listeners |-> {}, threw |-> FALSE,
     op |-> "load",
     seen |-> [isOpen |-> FALSE, knobOpened |-> FALSE, wrapOpened |-> FALSE,
               lastTween |-> "none"]]

NavListeners == {<<"knob", "click">>, <<"knob", "mouseenter">>, <<"wrap", "mouseleave">>}

\* mutant: no guard on the elements; getComputedStyle(null) throws a TypeError
initNavbarAnimation_NoGuard(n, m) ==
    IF ~m.navMain \/ ~m.navKnob \/ ~m.navWrap
    THEN [n EXCEPT !.phase = "aborted", !.threw = TRUE]
    ELSE [n EXCEPT !.phase = "running", !.defaultMarginTop = n.marginTop,
                   !.isOpen = FALSE, !.listeners = NavListeners]

\* initNavbarAnimation up to its return
initNavbarAnimation(n, m) ==
    IF ~m.navKnob \/ ~m.navMain \/ ~m.navWrap
    THEN [n EXCEPT !.phase = "aborted"]
    ELSE [n EXCEPT !.phase = "running", !.defaultMarginTop = n.marginTop,
                   !.isOpen = FALSE, !.listeners = NavListeners]

\* mutant: no test of isOpen
openNavbar_NoGuard(n) ==
    [n EXCEPT !.knobOpened = TRUE, !.wrapOpened = TRUE, !.lastTween = "0px",
              !.started = TRUE, !.isOpen = TRUE]

\* openNavbar
openNavbar(n) ==
    IF ~n.isOpen
    THEN [n EXCEPT !.knobOpened = TRUE, !.wrapOpened = TRUE, !.lastTween = "0px",
                   !.started = TRUE, !.isOpen = TRUE]
    ELSE n

\* closeNavbar
closeNavbar(n) ==
    IF n.isOpen
    THEN [n EXCEPT !.knobOpened = FALSE, !.wrapOpened = FALSE,
                   !.lastTween = n.defaultMarginTop,
                   !.started = TRUE, !.isOpen = FALSE]
    ELSE n

\* toggleNavbar
toggleNavbar(n) == IF ~n.isOpen THEN openNavbar(n) ELSE closeNavbar(n)

\* the storyline toggle before initStorylineToggle() runs
NewStoryline ==
    [phase |-> "new", listener |-> FALSE, buttonExpanded |-> FALSE,
     wrapperExpanded |-> FALSE, pending |-> 0, clicks |-> 0, refreshes |-> 0]

\* initStorylineToggle
initStorylineToggle(s, m) ==
    IF ~m.toggle THEN [s EXCEPT !.phase = "aborted"]
    ELSE IF ~m.wrapper THEN [s EXCEPT !.phase = "aborted"]
    ELSE [s EXCEPT !.phase = "running", !.listener = TRUE]

\* the click listener of the toggle button
storylineClick(s) ==
    [s EXCEPT !.buttonExpanded = ~@, !.wrapperExpanded = ~@,
              !.pending = @ + 1, !.clicks = @ + 1]

\* the callback the click listener passed to setTimeout
storylineRefresh(s) == [s EXCEPT !.pending = @ - 1, !.refreshes = @ + 1]

InitPage ==
    /\ variant = "ua"
    /\ lenisLoaded = TRUE
    /\ env \in {WithViewport(d, Breakpoint + 1, ih) : d \in PageDevices, ih \in Heights}
    /\ pc = "load"
    /\ mgr = NewManager
    /\ dom = [classes |-> {}, dvh |-> <<>>, dvw |-> <<>>]
    /\ eng = [created |-> 0, destroyed |-> 0, pumps |-> {}]
    /\ timers = {}
    /\ timersUsed = 0
    /\ burst = [since |-> 0, calls |-> 0, runs |-> 0, by |-> "none"]
    /\ last = [op |-> "load", out |-> NoOut, since |-> 0,
               ranPumps |-> {}, rafCalls |-> 0]
    /\ cls = "none"
    /\ bld = Unused
    /\ disp = NewDispatcher("part_000", <<Element("fade-in", FALSE, 0)>>)
    /\ \E m \in PageMarkups, margin \in NavMargins, sections \in StorySections :
         /\ page = [phase |-> "new", markup |-> m, sections |-> sections,
                    scaling |-> 0, hero |-> [timeline |-> FALSE, tweens |-> 0],
                    storyline |-> NewStoryline]
         /\ nav = NewNavbar(margin)
         /\ foot = NewFooter([footerSection |-> m.footerSection, navKnob |-> m.navKnob,
                              footerHeading |-> m.footerHeading],
                             <<"/next", "/next">>, 1, TRUE)

\* the DOMContentLoaded handler: animateStoryScaling(), new
\* ScrollAnimationManager(), new DesktopScrollManager(), animateHero(),
\* initNavbarAnimation(), initFooterAnimation(), initStorylineToggle(); a
\* routine that throws ends the handler
PageReady ==
    /\ page.phase = "new"
    /\ pc = "load"
    /\ LET m == page.markup
           w == init(variant, World, env, lenisLoaded)
           navbar == initNavbarAnimation(nav, m)
       IN  /\ disp' = initAnimations(disp)
           /\ Commit(w) /\ Done("init", w)
           /\ pc' = "ready"
           /\ nav' = navbar
           /\ IF navbar.threw
              THEN foot' = foot
              ELSE FooterStep("init", initFooterAnimation(foot))
           /\ page' = [page EXCEPT
                          !.phase = IF navbar.threw THEN "failed" ELSE "ready",
                          !.scaling = animateStoryScaling(page.sections),
                          !.hero = animateHero(m),
                          !.storyline = IF navbar.threw THEN @
                                        ELSE initStorylineToggle(@, m)]
    /\ UNCHANGED <<variant, lenisLoaded, env, burst, cls, bld>>

\* the step a navbar action records: what it ran and what it found
NavStep(op, n) == nav' = [n EXCEPT !.op = op, !.seen = NavSeen(nav)]

NavCalm == [nav EXCEPT !.started = FALSE]

\* click on the knob
NavKnobClick ==
    /\ nav.phase = "running"
    /\ NavStep("click", toggleNavbar(NavCalm))
    /\ UNCHANGED <<controller, disp, foot, bld, page>>

\* mouseenter on the knob
NavKnobMouseEnter ==
    /\ nav.phase = "running"
    /\ NavStep("mouseenter", openNavbar(NavCalm))
    /\ UNCHANGED <<controller, disp, foot, bld, page>>

\* mouseleave on the nav wrap
NavWrapMouseLeave ==
    /\ nav.phase = "running"
    /\ NavStep("mouseleave", closeNavbar(NavCalm))
    /\ UNCHANGED <<controller, disp, foot, bld, page>>

\* open() of the returned controller
NavOpen ==
    /\ nav.phase = "running"
    /\ NavStep("open", openNavbar(NavCalm))
    /\ UNCHANGED <<controller, disp, foot, bld, page>>

\* close() of the returned controller
NavClose ==
    /\ nav.phase = "running"
    /\ NavStep("close", closeNavbar(NavCalm))
    /\ UNCHANGED <<controller, disp, foot, bld, page>>

\* toggle() of the returned controller
NavToggle ==
    /\ nav.phase = "running"
    /\ NavStep("toggle", toggleNavbar(NavCalm))
    /\ UNCHANGED <<controller, disp, foot, bld, page>>

\* click on the storyline toggle button
StorylineClick ==
    /\ page.phase = "ready"
    /\ page.storyline.listener
    /\ page.storyline.clicks < MaxToggles
    /\ page' = [page EXCEPT !.storyline = storylineClick(@)]
    /\ UNCHANGED <<controller, disp, foot, bld, nav>>

\* a refresh timer of the storyline toggle fires
StorylineRefreshFire ==
    /\ page.phase = "ready"
    /\ page.storyline.pending > 0
    /\ page' = [page EXCEPT !.storyline = storylineRefresh(@)]
    /\ UNCHANGED <<controller, disp, foot, bld, nav>>

NextPage ==
    \/ PageReady
    \/ NavKnobClick
    \/ NavKnobMouseEnter
    \/ NavWrapMouseLeave
    \/ NavOpen
    \/ NavClose
    \/ NavToggle
    \/ StorylineClick
    \/ StorylineRefreshFire
    \/ FooterEnter
    \/ FooterTick
    \/ DispatcherProcess
    \/ DispatcherBatchDone
    \/ DispatcherTick
    \/ DispatcherRefreshFire

SpecPage == InitPage /\ [][NextPage]_vars

(***************************************************************************)
(* Properties of the smooth-scroll controller                              *)
(***************************************************************************)
\* the ambient signals a variant reads, as the classification they stand for
NoTouchSignal(e) ==
    /\ ~e.hasTouch
    /\ ~e.coarsePointer
    /\ e.canHover
    /\ e.userAgent \cap MobileTokensWidth = {}

DesktopSignals ==
    IF variant = "width"
    THEN env.innerWidth > Breakpoint /\ NoTouchSignal(env)
    ELSE ~isMobile(env)

MobileSignals == ~DesktopSignals

Debounces == {t \in timers : t.kind = "debounce"}
Settles == {t \in timers : t.kind = "settle"}
EvalOps == {"init", "resizeBody", "refresh"}

\* C1 as stated: in every state after init(), the interval between a resize
\* event and its debounce timer included, a device the signals classify as
\* mobile has no session.
C1_NoSessionWheneverMobile ==
    (pc = "ready" /\ MobileSignals) => mgr.lenis = 0

\* C1 amended: in the state each evaluation (init(), the debounced body of
\* handleResize, refresh()) leaves, a device the signals classify as mobile
\* has no session.
C1_NoSessionAfterEvaluation ==
    (pc = "ready" /\ last.op \in EvalOps /\ MobileSignals) => mgr.lenis = 0

C1_Witness ==
    /\ last.op = "resizeBody"
    /\ MobileSignals
    /\ last.out.destroyed = 1
    /\ mgr.lenis = 0

\* C2: sessions created minus sessions destroyed is 1 while lenis is non-null
\* and 0 while it is null.
C2_CreateDestroyBalance ==
    eng.created - eng.destroyed = (IF mgr.lenis # 0 THEN 1 ELSE 0)

C2_Witness ==
    /\ eng.created = 2
    /\ eng.destroyed = 1
    /\ mgr.lenis = 2
    /\ DesktopSignals

\* C3: an evaluation on a desktop device that has a session creates nothing
\* and keeps the handle; an evaluation on a mobile device without a session
\* destroys nothing; destroyLenis() without a session changes nothing; an
\* evaluation that directly follows an evaluation changes nothing.
C3_Idempotent ==
    [][ last'.op \in {"resizeBody", "refresh"} =>
          /\ (mgr.lenis # 0 /\ DesktopSignals) =>
                (mgr'.lenis = mgr.lenis /\ last'.out.created = 0 /\ eng' = eng)
          /\ (mgr.lenis = 0 /\ MobileSignals) =>
                (mgr'.lenis = 0 /\ last'.out.destroyed = 0 /\ eng' = eng)
          /\ mgr.lenis = 0 => destroyLenis(World) = World
          /\ last.op \in EvalOps => (mgr' = mgr /\ dom' = dom /\ eng' = eng)
      ]_vars

C3_Witness ==
    /\ last.op = "refresh"
    /\ DesktopSignals
    /\ mgr.lenis # 0
    /\ last.out.created = 0
    /\ eng.created = 1

\* C4: once a session is destroyed, no per-frame callback registered for it
\* runs, and no callback dereferences the null handle.
C4_PumpStopsOnDestroy ==
    last.op = "frame" => (last.ranPumps \subseteq {mgr.lenis} /\ ~last.out.threw)

\* C5: a device classified desktop at construction, with the engine loaded,
\* has a session when init() returns.
C5_DesktopInitCreatesSession ==
    (last.op = "init" /\ DesktopSignals /\ lenisLoaded) => isActive(mgr)

C5_Witness ==
    /\ last.op = "init"
    /\ DesktopSignals
    /\ isActive(mgr)
    /\ last.out.created = 1

\* C7: without the smooth-scroll engine the controller never has a session,
\* no handler throws, and a handler still runs its class update and its
\* layout refresh.
C7_EngineMissingStaysInactive ==
    (pc = "ready" /\ ~lenisLoaded) =>
        /\ mgr.lenis = 0
        /\ eng.created = 0
        /\ ~last.out.threw
        /\ (variant = "ua" /\ last.op \in EvalOps) => last.out.classRuns = 1
        /\ (variant = "ua" /\ last.op \in {"resizeBody", "refresh"}) =>
               last.out.refreshCalls = 1

C7_Witness ==
    /\ ~lenisLoaded
    /\ variant = "ua"
    /\ last.op = "resizeBody"
    /\ DesktopSignals
    /\ last.out.refreshCalls = 1
    /\ "enable-lenis" \in dom.classes
    /\ mgr.lenis = 0

\* C8: at most one debounce timer is pending, it is the one the last
\* handleResize call armed and it fires 250 ms after that call; the body runs
\* exactly once per burst of calls.
C8_DebounceOncePerBurst ==
    /\ Cardinality(Debounces) <= 1
    /\ \A t \in Debounces :
         /\ t.id = mgr.resizeTimeout
         /\ t.remaining = ResizeDebounce - burst.since
         /\ burst.runs = 0
    /\ (burst.calls > 0 /\ Debounces = {}) => burst.runs = 1
    /\ last.op = "resizeBody" => (last.since = ResizeDebounce /\ burst.runs = 1)

C8_Witness ==
    /\ last.op = "resizeBody"
    /\ burst.by = "resize"
    /\ burst.calls >= 2
    /\ burst.runs = 1

\* C9 as stated: when the 100 ms settle delay of an orientationchange has
\* passed, the classification has been re-checked and the session transition
\* performed.
C9_RecheckedAtSettle ==
    last.op = "settle" =>
        /\ MobileSignals => mgr.lenis = 0
        /\ (DesktopSignals /\ lenisLoaded) => mgr.lenis # 0

\* C9 amended: an orientationchange arms a 100 ms timer; when it fires,
\* handleResize is called, which changes no session and arms the 250 ms
\* debounce timer; the classification is re-checked when that timer fires,
\* 250 ms after the settle call.
C9_SettleThenDebounce ==
    /\ last.op = "orientationchange" =>
          \E t \in Settles : t.id = timersUsed /\ t.remaining = OrientationSettle
    /\ last.op = "settle" =>
          /\ last.out.created = 0 /\ last.out.destroyed = 0
          /\ \E t \in Debounces :
                t.id = mgr.resizeTimeout /\ t.remaining = ResizeDebounce
    /\ (last.op = "resizeBody" /\ burst.by = "settle") =>
          /\ last.since = ResizeDebounce
          /\ MobileSignals => mgr.lenis = 0
          /\ (DesktopSignals /\ lenisLoaded) => mgr.lenis # 0

C9_Witness ==
    /\ last.op = "resizeBody"
    /\ burst.by = "settle"
    /\ last.since = ResizeDebounce
    /\ last.out.destroyed = 1

\* C10: after configureMobileSettings has run, body carries disable-cursor,
\* viewport-mobile and fixed-viewport but not enable-lenis on a mobile device,
\* and enable-lenis but none of the other three on a desktop device.
C10_ClassesMatchClassification ==
    last.out.classRuns > 0 =>
        IF isMobile(env)
        THEN /\ {"disable-cursor", "viewport-mobile", "fixed-viewport"} \subseteq dom.classes
             /\ "enable-lenis" \notin dom.classes
        ELSE /\ "enable-lenis" \in dom.classes
             /\ dom.classes \cap {"disable-cursor", "viewport-mobile", "fixed-viewport"} = {}

C10_Witness ==
    /\ last.op = "resizeBody"
    /\ last.out.classRuns = 1
    /\ isMobile(env)
    /\ dom.classes = {"disable-cursor", "viewport-mobile", "fixed-viewport"}
    /\ eng.created = 1

\* C27: at most one per-frame pump is registered at any time, and a frame
\* advances the current session by exactly one pump call, also after the
\* device went from desktop to mobile and back.
C27_AtMostOnePump ==
    pc = "ready" =>
        /\ Cardinality(eng.pumps) <= 1
        /\ (last.op = "frame" /\ mgr.lenis # 0) => last.rafCalls = 1

\* C30: in the user-agent variant, the state each evaluation (init(), the
\* debounced body of handleResize, refresh()) leaves has enable-lenis on body
\* exactly when the device classifies as desktop, whether or not a session
\* exists; a session in such a state implies enable-lenis.
C30_EnableLenisFollowsClassification ==
    (variant = "ua" /\ pc = "ready" /\ last.op \in EvalOps) =>
        /\ "enable-lenis" \in dom.classes <=> ~isMobile(env)
        /\ mgr.lenis # 0 => "enable-lenis" \in dom.classes

C30_Witness ==
    /\ variant = "ua"
    /\ ~lenisLoaded
    /\ last.op = "refresh"
    /\ ~isMobile(env)
    /\ "enable-lenis" \in dom.classes
    /\ mgr.lenis = 0
    /\ eng.created = 0

\* a style value that reads as n / 100 pixels
IsHundredthPx(val, n) ==
    /\ Len(val) = 3
    /\ val[3] = "px"
    /\ val[2] \in 0..99
    /\ 100 * val[1] + val[2] = n

\* C11: in the user-agent variant, the state a handled resize event or
\* orientation change leaves on a mobile device (the debounced body has run;
\* for a device that was mobile at init() also the resize listener itself)
\* has --dvh and --dvw at a hundredth of the current viewport height and
\* width in px, also when the device was desktop at init(); on a desktop
\* device no step changes either variable and updateViewportHeight changes
\* nothing.
C11_ViewportVariablesFollowResize ==
    [][ variant = "ua" =>
          /\ ( /\ isMobile(env')
               /\ \/ last'.op = "resizeBody"
                  \/ last'.op = "resize" /\ mgr.vhListener ) =>
                 /\ IsHundredthPx(dom'.dvh, env'.innerHeight)
                 /\ IsHundredthPx(dom'.dvw, env'.innerWidth)
          /\ ~isMobile(env') =>
                 /\ dom'.dvh = dom.dvh
                 /\ dom'.dvw = dom.dvw
                 /\ updateViewportHeight(World, env').dom = dom
      ]_vars

C11_Witness ==
    /\ variant = "ua"
    /\ last.op = "resizeBody"
    /\ burst.by = "settle"
    /\ isMobile(env)
    /\ ~mgr.vhListener
    /\ env.innerWidth = Breakpoint
    /\ dom.dvw = <<9, 91, "px">>
    /\ dom.dvh = <<6, 0, "px">>

(***************************************************************************)
(* Properties of the animation dispatcher                                  *)
(***************************************************************************)
NumElements == Len(disp.elements)
Dispatched == disp.phase = "idle"
ReturnsResults == disp.cls \in {"part_000", "main_async"}

\* the builders registered under a name, as the claims speak of them
Registered(i) == disp.elements[i].type \in getAnimationConfigs(disp.cls)
Unregistered(i) == disp.elements[i].type # "" /\ ~Registered(i)
BuilderThrows(i) == Registered(i) /\ disp.elements[i].throws
EntryKeys == {x.key : x \in disp.animations}

\* C12 as stated, for the dispatcher of part_000: initAnimations returns one
\* result per element, in order, with results[i].index = i; the failures are
\* exactly the elements whose type has no registered builder (error 'Unknown
\* type') or whose builder throws (the caught exception); every other element
\* with a type is processed by its builder.
C12_FailuresAreExactlyTheBadElements ==
    (Dispatched /\ disp.cls = "part_000") =>
        /\ disp.returned
        /\ Len(disp.results) = NumElements
        /\ \A i \in 1..NumElements :
             /\ disp.results[i].index = i - 1
             /\ ~disp.results[i].success <=> (Unregistered(i) \/ BuilderThrows(i))
             /\ Unregistered(i) => disp.results[i].error = "Unknown type"
             /\ BuilderThrows(i) => disp.results[i].error = "exception"
             /\ (Registered(i) /\ ~BuilderThrows(i)) =>
                    disp.builderCalls[i] = disp.dispatches

\* C13 as stated, for the dispatcher of part_000: every global refresh is the
\* dispatcher's own, made by the timer after all elements of the batch are
\* processed; a batch that has settled has had exactly one; a batch that is
\* being processed has had none.
C13_OneRefreshAfterTheBatch ==
    disp.phase \in {"processing", "idle"} /\ disp.cls = "part_000" =>
        /\ \A k \in DOMAIN disp.refreshLog :
             /\ disp.refreshLog[k].by = "timer"
             /\ disp.refreshLog[k].processed = NumElements
        /\ disp.phase = "processing" =>
             ~\E k \in DOMAIN disp.refreshLog : disp.refreshLog[k].batch = disp.dispatches
        /\ (Dispatched /\ disp.dtimers = <<>>) =>
             \A b \in 1..disp.dispatches :
                Cardinality({k \in DOMAIN disp.refreshLog :
                               disp.refreshLog[k].batch = b}) = 1

C15_MapHoldsTheSuccesses ==
    (Dispatched /\ ReturnsResults) =>
        /\ \A i \in 1..NumElements :
             <<"animation-", i - 1>> \in EntryKeys <=>
                 (disp.results[i].success /\ ~disp.results[i].skipped)
        /\ \A x \in disp.animations :
             /\ \E i \in 1..NumElements : x.key = <<"animation-", i - 1>>
             /\ x.key = <<"animation-", x.element - 1>>
             /\ x.config.type = disp.results[x.element].type
             /\ disp.elements[x.element].type \in {x.config.type, ""}
        /\ \A x, y \in disp.animations : x.key = y.key => x = y

C15_Witness ==
    /\ Dispatched
    /\ disp.cls = "part_000"
    /\ disp.dispatches = 2
    /\ NumElements = 2
    /\ disp.elements[1].type = "bogus"
    /\ disp.elements[2].type = "fade-in" /\ ~disp.elements[2].throws
    /\ disp.animations = {[key |-> <<"animation-", 1>>, element |-> 2,
                           config |-> [type |-> "fade-in"]]}

\* C16 as stated: once addAnimationType(name, fn) has been called with a name
\* that is not built in, a later dispatch of an element of that type invokes
\* fn and records a success, not 'Unknown type'.
C16_AddedTypeIsDispatched ==
    disp.phase \in {"processing", "idle"} =>
        \A a \in disp.added : \A i \in 1..NumElements :
            ( /\ a.after < disp.dispatches
              /\ disp.elements[i].type = a.name
              /\ i < disp.cursor ) =>
                /\ disp.builderCalls[i] > 0
                /\ ReturnsResults =>
                     /\ disp.results[i].success
                     /\ disp.results[i].error # "Unknown type"

\* C17 as stated, for the dispatcher of part_000: whatever the number of dispatch calls, an element has at
\* most one animation instance attached, and exactly one if a builder
\* animated it.
C17_OneInstancePerElement ==
    (disp.phase \in {"processing", "idle"} /\ disp.cls = "part_000") =>
        \A i \in 1..NumElements :
            /\ disp.attached[i] <= 1
            /\ (Dispatched /\ <<"animation-", i - 1>> \in EntryKeys
                  /\ disp.elements[i].type \in {"fade-in", ""}) => disp.attached[i] = 1

(***************************************************************************)
(* Properties of the footer countdown                                      *)
(***************************************************************************)
FooterRuns == foot.phase = "running"
ResetOps == {"onEnterBack", "onLeaveBack", "onLeave", "resetAnimation"}
StartOps == {"onEnter", "startAnimation"}
NumLinks == Len(foot.links)

\* C18: a countdown completes only by playing its full 10 s from a start, it
\* then triggers navigation exactly once, and until the next reset an
\* onEnter or startAnimation call neither restarts it nor navigates again.
C18_NavigatesOncePerActivation ==
    FooterRuns =>
        /\ foot.complete =>
             (foot.nav = 1 /\ ~foot.playing /\ foot.time = HeadingDuration)
        /\ ~foot.complete => foot.nav = 0
        /\ (foot.op = "tick" /\ foot.complete) =>
             /\ foot.seen.playing /\ ~foot.seen.complete
             /\ foot.seen.time = HeadingDuration - 1
        /\ (foot.op \in StartOps /\ foot.seen.complete) =>
             /\ foot.complete /\ ~foot.playing /\ foot.nav = 1
             /\ Len(foot.clicks) = foot.seen.clicks

C18_Witness ==
    /\ FooterRuns
    /\ foot.op = "startAnimation"
    /\ foot.seen.complete
    /\ foot.complete
    /\ foot.nav = 1
    /\ foot.links = <<"/next", "/next">>
    /\ foot.current = 1
    /\ foot.clicks = <<1>>

\* C19: a reset (onEnterBack, onLeaveBack, onLeave, resetAnimation) leaves
\* the countdown paused at progress 0 with the completed flag false; issued
\* before completion it clicks nothing, and a countdown that is paused and
\* not completed stays at 0: time only advances a countdown that plays.
C19_ResetCancelsActivation ==
    FooterRuns =>
        /\ foot.op \in ResetOps =>
             /\ foot.time = 0 /\ ~foot.playing /\ ~foot.complete /\ foot.nav = 0
             /\ Len(foot.clicks) = foot.seen.clicks
        /\ (~foot.playing /\ ~foot.complete) => (foot.time = 0 /\ foot.nav = 0)
        /\ foot.op = "tick" => foot.seen.playing

C19_Witness ==
    /\ FooterRuns
    /\ foot.op = "onLeave"
    /\ foot.seen.playing
    /\ foot.seen.time = HeadingDuration - 1
    /\ foot.time = 0
    /\ ~foot.playing
    /\ ~foot.complete
    /\ foot.current = 1 /\ foot.wrap /\ foot.links = <<"/next", "/next">>
    /\ foot.clicks = <<>>

\* C28: the countdown begins to play only in onEnter or startAnimation;
\* onEnterBack, which follows an onLeave, leaves it paused at 0 with the
\* completed flag false; and a click on a nav link happens only in a second
\* of a playing countdown, so none happens after onEnterBack until a start.
C28_OnlyEnterStartsTheCountdown ==
    FooterRuns =>
        /\ (foot.playing /\ ~foot.seen.playing) => foot.op \in StartOps
        /\ foot.op = "onEnterBack" =>
             /\ foot.pos = "inside"
             /\ foot.time = 0 /\ ~foot.playing /\ ~foot.complete
        /\ Len(foot.clicks) > foot.seen.clicks =>
             (foot.op = "tick" /\ foot.seen.playing)
        /\ (foot.nav > 0 /\ ~foot.seen.complete) =>
             (foot.op = "tick" /\ foot.seen.playing)

C28_Witness ==
    /\ FooterRuns
    /\ foot.op = "onEnterBack"
    /\ foot.pos = "inside"
    /\ foot.starts = 1
    /\ ~foot.seen.playing /\ ~foot.playing
    /\ foot.time = 0
    /\ ~foot.complete
    /\ foot.current = 1 /\ foot.wrap /\ foot.links = <<"/next", "/next">>
    /\ foot.clicks = <<>>

\* an href the claims count as usable: present and not "#"
UsableHref(attr) == attr \notin {NoAttr, "#"}

\* C20 as stated: on completion with N links, the current one at index i,
\* the link at index (i + 1) mod N is clicked; without a current link,
\* without an enclosing container, or when that link has no usable href,
\* nothing is clicked.
C20_ClicksNextLinkCyclically ==
    (FooterRuns /\ foot.op = "tick" /\ foot.complete) =>
        IF /\ foot.current # 0
           /\ foot.wrap
           /\ UsableHref(foot.links[(foot.current % NumLinks) + 1])
        THEN /\ Len(foot.clicks) = foot.seen.clicks + 1
             /\ foot.clicks[Len(foot.clicks)] = foot.current % NumLinks
        ELSE Len(foot.clicks) = foot.seen.clicks

\* element i is a horizontal scroller whose builder returns before attaching
ReturnsEarly(i) ==
    /\ disp.elements[i].type = "horizontal-scroll"
    /\ Registered(i)
    /\ (isMobile(env) \/ disp.elements[i].items = 0)

\* C29: an element whose builder returns early without attaching anything
\* (horizontal-scroll on a mobile device or with no matching item) is still
\* recorded as a success of its declared type, not as skipped, and stored in
\* the animations map, with no instance attached to it.
C29_EarlyReturnIsRecordedAsSuccess ==
    (Dispatched /\ ReturnsResults) =>
        \A i \in 1..NumElements : ReturnsEarly(i) =>
            /\ disp.results[i] = Result(TRUE, "horizontal-scroll", i - 1, "none", FALSE)
            /\ <<"animation-", i - 1>> \in EntryKeys
            /\ disp.builderCalls[i] = disp.dispatches
            /\ disp.attached[i] = 0

C29_Witness ==
    /\ Dispatched
    /\ disp.cls = "part_000"
    /\ ~isMobile(env)
    /\ NumElements = 2
    /\ ReturnsEarly(1) /\ ~ReturnsEarly(2)
    /\ disp.elements[2].type = "horizontal-scroll"
    /\ disp.results[1].success /\ ~disp.results[1].skipped
    /\ disp.results[2] = [disp.results[1] EXCEPT !.index = 1]
    /\ disp.attached = <<0, 1>>
    /\ {<<"animation-", 0>>, <<"animation-", 1>>} \subseteq EntryKeys


(***************************************************************************)
(* Properties of the animation builders                                    *)
(***************************************************************************)
BuiltBy(name) == bld.phase = "built" /\ bld.builder = name

\* the height multiplier a directive asks for
MultiplierOf(data) ==
    IF data.heightMultiplier = "30" THEN 30 ELSE DefaultHeightMultiplier

\* C21 as stated: on a desktop device, with k >= 1 items matching inside the
\* element and multiplier m, the height becomes k * m svh and one tween is
\* made on the parent of the first matching item with x = -(scrollWidth -
\* offsetWidth).
C21_HeightIsItemsTimesMultiplier ==
    (BuiltBy("horizontal-scroll") /\ ~isMobile(env) /\ bld.box.items >= 1) =>
        /\ bld.made.height = <<bld.box.items * MultiplierOf(bld.data), "svh">>
        /\ Len(bld.made.tweens) = 1
        /\ bld.made.tweens[1].target = bld.box.firstParent
        /\ bld.made.tweens[1].x = -(bld.box.scrollWidth - bld.box.offsetWidth)

\* C21 amended: k counts the matching items under the parent of the first
\* matching item (all matching items when they lie in one list); the
\* height becomes k * m svh and one tween is made on that parent with
\* x = -(scrollWidth - offsetWidth).
C21_HeightIsListItemsTimesMultiplier ==
    (BuiltBy("horizontal-scroll") /\ ~isMobile(env) /\ bld.box.items >= 1) =>
        /\ bld.made.height = <<bld.box.inList * MultiplierOf(bld.data), "svh">>
        /\ Len(bld.made.tweens) = 1
        /\ bld.made.tweens[1].target = bld.box.firstParent
        /\ bld.made.tweens[1].x = -(bld.box.scrollWidth - bld.box.offsetWidth)
        /\ bld.made.timelines = <<>>

C21_Witness ==
    /\ BuiltBy("horizontal-scroll")
    /\ ~isMobile(env)
    /\ bld.box.items = 5 /\ bld.box.inList = 5
    /\ bld.data.heightMultiplier = Absent
    /\ bld.box.scrollWidth = 1200 /\ bld.box.offsetWidth = 800
    /\ bld.made.height = <<250, "svh">>
    /\ bld.made.tweens = <<[target |-> "list", x |-> -400, trigger |-> "element"]>>

\* C22: on a mobile device, and on a desktop device when no item matches,
\* the horizontal-scroll builder leaves the height as it was, makes no tween
\* or trigger and invokes no layout refresh.
C22_GatedBuilderChangesNothing ==
    (BuiltBy("horizontal-scroll") /\ (isMobile(env) \/ bld.box.items = 0)) =>
        /\ bld.made.height = bld.box.height
        /\ bld.made.tweens = <<>>
        /\ bld.made.timelines = <<>>
        /\ bld.made.refreshes = 0

C22_Witness ==
    /\ BuiltBy("horizontal-scroll")
    /\ isMobile(env)
    /\ bld.box.items = 5
    /\ bld.made.height = "auto"
    /\ bld.made.tweens = <<>>
    /\ bld.made.refreshes = 0

\* C23 as stated: with an ancestor section the trigger of the timeline is
\* that ancestor and not the element; without one the builder makes exactly
\* what the plain text-reveal builder makes (trigger = the element); the
\* text is split once.
C23_TriggerIsAncestorSection ==
    BuiltBy("text-reveal-story") =>
        /\ bld.made.splits = 1
        /\ Len(bld.made.timelines) = 1
        /\ IF bld.place.inSection
           THEN /\ bld.made.timelines[1].trigger = "section"
                /\ bld.made.timelines[1].trigger # "element"
           ELSE bld.made = bld.plain

\* the units the text splits into at the chosen granularity
RECURSIVE CharsOf(_)
CharsOf(w) == IF w = <<>> THEN 0 ELSE Head(w) + CharsOf(Tail(w))
UnitsOf(t, data) ==
    IF data.split = "chars" THEN CharsOf(t.words)
    ELSE IF data.split = "lines" THEN t.lines
    ELSE Len(t.words)

\* C24: text-reveal on a text of W units makes one timeline with W
\* sub-animations, the first at offset 0 and each next one a stagger later
\* (the one at 0-based index i at i * stagger), for every parsed stagger.
C24_StaggeredSubAnimations ==
    BuiltBy("text-reveal") =>
        /\ Len(bld.made.timelines) = 1
        /\ LET subs == bld.made.timelines[1].subs
               W == UnitsOf(bld.text, bld.data)
           IN  /\ Len(subs) = W
               /\ W > 0 => subs[1].at = 0
               /\ \A i \in 1..(W - 1) : subs[i + 1].at - subs[i].at = bld.config.stagger
               /\ \A i \in 1..W : subs[i].target[2] = i
        /\ bld.config.stagger =
             (IF bld.data.stagger = "0.2" THEN 20
              ELSE IF bld.data.stagger = "-0.1" THEN -10
              ELSE DefaultStagger)

C24_Witness ==
    /\ BuiltBy("text-reveal")
    /\ Len(bld.text.words) = 3
    /\ bld.data.split = Absent
    /\ bld.data.stagger = "0.2"
    /\ Len(bld.made.timelines[1].subs) = 3
    /\ bld.made.timelines[1].subs[3].at = 40
    /\ bld.made.timelines[1].trigger = "element"

(***************************************************************************)
(* Properties of the page-ready handler and the navbar                     *)
(***************************************************************************)
PageRan == page.phase # "new"
NavbarMarkup == page.markup.navKnob /\ page.markup.navMain /\ page.markup.navWrap
FooterMarkup ==
    page.markup.footerSection /\ page.markup.navKnob /\ page.markup.footerHeading
StorylineMarkup == page.markup.toggle /\ page.markup.wrapper

\* C25: when the markup lacks an element a scene routine needs (hero section;
\* nav knob, nav main or nav wrap; footer section, nav knob or footer
\* heading; storyline toggle or wrapper), that routine registers no trigger,
\* listener or timeline and returns without throwing, and every other
\* routine of the page-ready handler is initialised as with full markup.
C25_MissingMarkupSkipsOnlyItsRoutine ==
    PageRan =>
        /\ page.phase = "ready"
        /\ ~nav.threw /\ ~last.out.threw
        /\ pc = "ready"
        /\ disp.dispatches = 1
        /\ page.scaling = page.sections - 1
        /\ page.hero.timeline <=> page.markup.hero
        /\ ~page.markup.hero => page.hero.tweens = 0
        /\ nav.phase = (IF NavbarMarkup THEN "running" ELSE "aborted")
        /\ nav.listeners = (IF NavbarMarkup THEN NavListeners ELSE {})
        /\ ~NavbarMarkup =>
             /\ nav.lastTween = "none" /\ nav.op = "load"
             /\ ~nav.knobOpened /\ ~nav.wrapOpened
        /\ foot.phase = (IF FooterMarkup THEN "running" ELSE "aborted")
        /\ ~FooterMarkup =>
             /\ foot.op = "init" /\ ~foot.playing /\ foot.time = 0 /\ foot.starts = 0
             /\ foot.clicks = <<>>
        /\ page.storyline.phase = (IF StorylineMarkup THEN "running" ELSE "aborted")
        /\ page.storyline.listener <=> StorylineMarkup
        /\ ~StorylineMarkup =>
             /\ page.storyline.clicks = 0 /\ page.storyline.pending = 0
             /\ page.storyline.refreshes = 0

C25_Witness ==
    /\ page.phase = "ready"
    /\ ~page.markup.hero
    /\ ~page.markup.navMain /\ page.markup.navKnob
    /\ ~page.hero.timeline
    /\ nav.phase = "aborted"
    /\ foot.phase = "running" /\ foot.playing /\ foot.time = 1
    /\ page.storyline.phase = "running" /\ page.storyline.refreshes = 1
    /\ disp.phase = "idle"
    /\ isActive(mgr)

NavOpenOps == {"mouseenter", "open"}
NavCloseOps == {"mouseleave", "close"}

\* C26: after init and any sequence of knob click, knob mouseenter, nav-wrap
\* mouseleave and open / close / toggle calls, isOpen is true exactly when
\* the knob and the wrap both carry is-opened; the most recent margin tween
\* targets 0px when open and the margin-top captured at init when closed; an
\* open while open and a close while closed start no tween and change no
\* class.
C26_OpenStateMatchesClasses ==
    nav.phase = "running" =>
        /\ nav.isOpen <=> (nav.knobOpened /\ nav.wrapOpened)
        /\ nav.knobOpened <=> nav.wrapOpened
        /\ nav.defaultMarginTop = nav.marginTop
        /\ nav.lastTween # "none" =>
             nav.lastTween = (IF nav.isOpen THEN "0px" ELSE nav.defaultMarginTop)
        /\ ((nav.op \in NavOpenOps /\ nav.seen.isOpen)
              \/ (nav.op \in NavCloseOps /\ ~nav.seen.isOpen)) =>
             (~nav.started /\ NavSeen(nav) = nav.seen)
        /\ nav.started => nav.isOpen # nav.seen.isOpen

C26_Witness ==
    /\ nav.phase = "running"
    /\ nav.op = "mouseleave"
    /\ nav.seen.isOpen /\ nav.seen.lastTween = "0px"
    /\ ~nav.isOpen /\ ~nav.knobOpened /\ ~nav.wrapOpened
    /\ nav.started
    /\ nav.defaultMarginTop = "-64px"
    /\ nav.lastTween = "-64px"

(***************************************************************************)
(* Properties of the device classifier                                     *)
(***************************************************************************)
UaRegexMatch(v, e) ==
    e.userAgent \cap (IF v = "width" THEN MobileTokensWidth ELSE MobileTokensUa) # {}

AnySignal(v, e) ==
    \/ e.hasTouch
    \/ e.coarsePointer
    \/ ~e.canHover
    \/ UaRegexMatch(v, e)
    \/ e.uaDataMobile = "true"
    \/ e.innerWidth <= Breakpoint

\* C6 as stated: the classifier yields mobile exactly when at least one of
\* the signals (touch, coarse pointer, cannot hover, user-agent regex,
\* userAgentData.mobile, width <= breakpoint) indicates touch/mobile.
C6_AnySignalMeansMobile ==
    pc = "classified" => (cls = "mobile" <=> AnySignal(variant, env))

\* C6 amended: the width variant yields mobile exactly when one of touch,
\* coarse pointer, cannot hover, user-agent regex or width <= breakpoint
\* indicates it (userAgentData is not read); the user-agent variant yields
\* userAgentData.mobile when that is defined and the regex match otherwise
\* (no other signal is read).
C6_SignalsEachVariantReads ==
    pc = "classified" =>
        IF variant = "width"
        THEN cls = "mobile" <=>
                 \/ env.hasTouch
                 \/ env.coarsePointer
                 \/ ~env.canHover
                 \/ UaRegexMatch("width", env)
                 \/ env.innerWidth <= Breakpoint
        ELSE /\ env.uaDataMobile = "true" => cls = "mobile"
             /\ env.uaDataMobile = "false" => cls = "desktop"
             /\ env.uaDataMobile = "undefined" =>
                    (cls = "mobile" <=> UaRegexMatch("ua", env))

C6_Witness ==
    /\ pc = "classified"
    /\ variant = "width"
    /\ env.innerWidth > Breakpoint
    /\ env.hasTouch /\ ~env.coarsePointer /\ env.canHover
    /\ env.userAgent = {}
    /\ cls = "mobile"
====
